---- MODULE Spec2Model ----
(***************************************************************************)
(* EnergyGrid data aggregator client (client/client.js).                   *)
(*                                                                         *)
(* The model follows the event-loop structure of the JavaScript source:    *)
(* every action is one run-to-completion turn, from the point where a      *)
(* flow is resumed (a timer fires, a network response arrives, an awaited  *)
(* promise settles) up to its next await.  Date.now() is the variable      *)
(* clock; it advances only while a flow is suspended.  The clock never     *)
(* goes back, a sleep(ms) timer fires ms or more after it was set, and a   *)
(* network call takes a multiple of Tick, zero included.                   *)
(***************************************************************************)
EXTENDS Integers, Sequences, FiniteSets, TLC

(* CONFIG, client.js lines 7-14 *)
RATE_LIMIT_MS == 1000
BATCH_SIZE == 10
MAX_RETRIES == 3
RETRY_DELAY_MS == 2000

(* Time granularity of the model: half a rate-limit interval. *)
Tick == RATE_LIMIT_MS \div 2

(* Bounds of the model *)
MaxDevices == 15
MaxStartTicks == 2
MaxNetTicks == 2
MaxLate == 1
MaxLen == 8
MaxBatchSize == 4
NumFlows == 3

DeviceCounts == {0, BATCH_SIZE, MaxDevices}
StartTimes == {k * Tick : k \in 0..MaxStartTicks}
NetDurations == {k * Tick : k \in 0..MaxNetTicks}
Lateness == {k * Tick : k \in 0..MaxLate}

(* What one axios.post can end in: a 2xx response, an HTTP error status    *)
(* (error.response.status) or a connection-level error (error.code).       *)
Responses == {"ok", "h429", "ECONNREFUSED", "h401", "h400", "ETIMEDOUT"}

VARIABLES
  clock,            \* Date.now()
  pc,               \* position of the flow that runs fetchAllDeviceData / createBatches
  serialNumbers,    \* array argument of createBatches
  batchSize,        \* batchSize argument of createBatches
  cb_i,             \* loop variable i of createBatches
  batches,          \* batches built by createBatches
  i,                \* loop variable i of fetchAllDeviceData (0-based)
  lastRequestTime,  \* RateLimitedQueue.lastRequestTime
  calls,            \* per batch: the state of queue.execute(() => makeRequest(batch))
  allResults,
  successCount,
  failureCount,
  prevPost,         \* history: start time of the axios.post before the last one, -1 if none
  lastPost,         \* history: start time of the last axios.post, -1 if none
  sent              \* the request passed to the last axios.post: body and headers

vars == <<clock, pc, serialNumbers, batchSize, cb_i, batches, i, lastRequestTime,
          calls, allResults, successCount, failureCount, prevPost, lastPost, sent>>

Min(a, b) == IF a < b THEN a ELSE b
Max(a, b) == IF a > b THEN a ELSE b

(* generateSerialNumbers(count): SN-000, SN-001, ... ; the serial number   *)
(* SN-<k> is represented by its number k.                                  *)
generateSerialNumbers(count) == [k \in 1..count |-> k - 1]

(* Array.prototype.slice(start, end) on a 0-based array held as a 1-based  *)
(* sequence: negative indices count from the end, both are clamped.        *)
sliceIndex(len, k) == IF k < 0 THEN Max(len + k, 0) ELSE Min(k, len)
slice(array, start, end) ==
  LET from == sliceIndex(Len(array), start)
      to == sliceIndex(Len(array), end)
  IN  IF from < to THEN [k \in 1..(to - from) |-> array[from + k]] ELSE <<>>

(* A call queue.execute(() => makeRequest(batch)) that has not started. *)
(* pc: where the call is suspended or how it ended; retryCount: argument of  *)
(* the running makeRequest; wakeAt: expiry of the pending sleep() timer.    *)
(* History: started = number of execute() calls made for the batch,         *)
(* admittedAt = value written to lastRequestTime at its admission,          *)
(* attempts = axios.post calls made, fails = responses that were HTTP 429   *)
(* or ECONNREFUSED, lastResp = the last response received, delays = the    *)
(* lengths of the backoff sleeps requested so far.                          *)
IdleCall == [pc |-> "idle", retryCount |-> 0, wakeAt |-> -1, started |-> 0,
             admittedAt |-> -1, attempts |-> 0, fails |-> 0, lastResp |-> "none",
             delays |-> <<>>]

Settled == {"ok", "exhausted", "rejected"}

(* number of axios.post calls awaiting their response *)
InFlight == Cardinality({b \in DOMAIN calls : calls[b].pc = "net"})

----------------------------------------------------------------------------
(* createBatches, client.js lines 39-45 *)

(* variant of nextBatch: the batch size is passed as the end index *)
nextBatch_sizeAsEnd(array, k, size) == slice(array, k, size)

(* line 42: array.slice(i, i + batchSize) *)
nextBatch(array, k, size) == slice(array, k, k + size)

createBatches_loop ==
  /\ pc = "createBatches"
  /\ cb_i < Len(serialNumbers)
  /\ Len(batches) <= MaxLen          \* bound of the model on the array length
  /\ batches' = Append(batches, nextBatch(serialNumbers, cb_i, batchSize))
  /\ cb_i' = cb_i + batchSize
  /\ UNCHANGED <<clock, pc, serialNumbers, batchSize, i, lastRequestTime, calls,
                 allResults, successCount, failureCount,
                 prevPost, lastPost, sent>>

createBatches_return ==
  /\ pc = "createBatches"
  /\ ~(cb_i < Len(serialNumbers))
  /\ pc' = "batched"
  /\ UNCHANGED <<clock, serialNumbers, batchSize, cb_i, batches, i, lastRequestTime,
                 calls, allResults, successCount, failureCount,
                 prevPost, lastPost, sent>>

----------------------------------------------------------------------------
(* makeRequest, client.js lines 50-81 *)

(* variants of isRetryable: only HTTP 429 is retried; every error is retried *)
isRetryable_only429(error) == error = "h429"
isRetryable_anyError(error) == error # "ok"

(* line 70: error.response?.status === 429 || error.code === 'ECONNREFUSED' *)
isRetryable(error) == error = "h429" \/ error = "ECONNREFUSED"

(* variant of shouldRetry: <= instead of < *)
shouldRetry_inclusive(retryCount) == retryCount <= MAX_RETRIES

(* line 71 *)
shouldRetry(retryCount) == retryCount < MAX_RETRIES

(* CONFIG, lines 8-9, and line 52: new URL(CONFIG.API_URL).pathname *)
API_URL == "http://localhost:3000/device/real/query"
TOKEN == "interview_token_123"
pathname == "/device/real/query"

(* lines 20-23: the MD5 digest of url + token + timestamp; the digest is  *)
(* kept as the hashed string, tagged                                       *)
generateSignature(url, token, timestamp) == [md5 |-> url \o token \o timestamp]

(* lines 51-53, 58-64: the body and the headers built at time t *)
signedRequest(snList, t) ==
  LET timestamp == ToString(t)
  IN  [sn_list |-> snList,
       signature |-> generateSignature(pathname, TOKEN, timestamp),
       timestamp |-> timestamp]

NoRequest == [sn_list |-> <<>>, signature |-> [md5 |-> ""], timestamp |-> ""]

(* variant of retryDelay: the delay doubles with every retry *)
retryDelay_exponential(retryCount) == RETRY_DELAY_MS * (2 ^ retryCount)

(* line 73: the argument of sleep() before the retry *)
retryDelay(retryCount) == RETRY_DELAY_MS

(* lines 51-66: makeRequest(snList, retryCount) entered at time t: the     *)
(* timestamp is read, the request is signed and axios.post is issued.      *)
makeRequest(call, retryCount) ==
  [call EXCEPT !.pc = "net", !.retryCount = retryCount, !.wakeAt = -1,
               !.attempts = @ + 1]

(* lines 56-66: axios.post is called at time t for batch b *)
posted(b, t) ==
  /\ prevPost' = lastPost
  /\ lastPost' = t
  /\ sent' = signedRequest(batches[b], t)

----------------------------------------------------------------------------
(* RateLimitedQueue, client.js lines 94-112 *)

(* line 102 *)
timeSinceLastRequest(now) == now - lastRequestTime

(* variant of waitTime: the elapsed time instead of the remaining time *)
waitTime_elapsed(now) == timeSinceLastRequest(now)

(* line 105 *)
waitTime(now) == RATE_LIMIT_MS - timeSinceLastRequest(now)

(* lines 109-110: record the admission and invoke fn *)
admit(b, call, t) ==
  /\ lastRequestTime' = t
  /\ calls' = [calls EXCEPT ![b] = makeRequest([call EXCEPT !.admittedAt = t], 0)]
  /\ posted(b, t)

(* lines 101-110: execute(fn) called at time now, up to its first await *)
execute(b, now) ==
  LET call == [calls[b] EXCEPT !.started = @ + 1]
  IN  IF timeSinceLastRequest(now) < RATE_LIMIT_MS
        THEN /\ calls' = [calls EXCEPT ![b] = [call EXCEPT !.pc = "exec_sleep",
                                                           !.wakeAt = now + waitTime(now)]]
             /\ UNCHANGED <<lastRequestTime, prevPost, lastPost, sent>>
        ELSE admit(b, call, now)

(* lines 106-110: sleep(waitTime) is over, possibly late *)
execute_wake(b, late) ==
  /\ b \in DOMAIN calls
  /\ calls[b].pc = "exec_sleep"
  /\ clock' = Max(clock, calls[b].wakeAt) + late
  /\ admit(b, calls[b], clock')
  /\ UNCHANGED <<pc, serialNumbers, batchSize, cb_i, batches, i, allResults,
                 successCount, failureCount>>

----------------------------------------------------------------------------
(* makeRequest, continued: the response of axios.post arrives after d *)
makeRequest_response(b, d, resp) ==
  /\ b \in DOMAIN calls
  /\ calls[b].pc = "net"
  /\ clock' = clock + d
  /\ LET fails == calls[b].fails + (IF resp \in {"h429", "ECONNREFUSED"} THEN 1 ELSE 0)
         next ==
           IF resp = "ok" THEN [pc |-> "ok", wakeAt |-> -1]
           ELSE IF isRetryable(resp)
             THEN IF shouldRetry(calls[b].retryCount)
                    THEN [pc |-> "backoff",
                          wakeAt |-> clock' + retryDelay(calls[b].retryCount)]
                    ELSE [pc |-> "exhausted", wakeAt |-> -1]
             ELSE [pc |-> "rejected", wakeAt |-> -1]
     IN calls' = [calls EXCEPT ![b] = [@ EXCEPT !.pc = next.pc,
                                                !.wakeAt = next.wakeAt,
                                                !.delays = IF next.pc = "backoff"
                                                             THEN Append(@, next.wakeAt - clock')
                                                             ELSE @,
                                                !.fails = fails,
                                                !.lastResp = resp]]
  /\ UNCHANGED <<pc, serialNumbers, batchSize, cb_i, batches, i, lastRequestTime,
                 allResults, successCount, failureCount,
                 prevPost, lastPost, sent>>

(* variant: the retry records its own time in the state of the queue *)
makeRequest_retry_recorded(b, late) ==
  /\ b \in DOMAIN calls
  /\ calls[b].pc = "backoff"
  /\ clock' = Max(clock, calls[b].wakeAt) + late
  /\ calls' = [calls EXCEPT ![b] = makeRequest(calls[b], calls[b].retryCount + 1)]
  /\ posted(b, clock')
  /\ lastRequestTime' = clock'
  /\ UNCHANGED <<pc, serialNumbers, batchSize, cb_i, batches, i,
                 allResults, successCount, failureCount>>

(* lines 73-74: sleep(RETRY_DELAY_MS) is over, makeRequest(snList, retryCount + 1) *)
makeRequest_retry(b, late) ==
  /\ b \in DOMAIN calls
  /\ calls[b].pc = "backoff"
  /\ clock' = Max(clock, calls[b].wakeAt) + late
  /\ calls' = [calls EXCEPT ![b] = makeRequest(calls[b], calls[b].retryCount + 1)]
  /\ posted(b, clock')
  /\ UNCHANGED <<pc, serialNumbers, batchSize, cb_i, batches, i, lastRequestTime,
                 allResults, successCount, failureCount>>

----------------------------------------------------------------------------
(* fetchAllDeviceData, client.js lines 117-196 *)

(* lines 122-126: the population is generated and createBatches is called *)
fetchAllDeviceData_start(count) ==
  /\ pc = "start"
  /\ serialNumbers' = generateSerialNumbers(count)
  /\ batchSize' = BATCH_SIZE
  /\ cb_i' = 0
  /\ batches' = <<>>
  /\ pc' = "createBatches"
  /\ UNCHANGED <<clock, i, lastRequestTime, calls, allResults, successCount,
                 failureCount, prevPost, lastPost, sent>>

(* lines 132-139: the queue and the accumulators are created *)
fetchAllDeviceData_init ==
  /\ pc = "batched"
  /\ lastRequestTime' = 0
  /\ allResults' = <<>>
  /\ successCount' = 0
  /\ failureCount' = 0
  /\ i' = 0
  /\ calls' = [b \in 1..Len(batches) |-> IdleCall]
  /\ pc' = "loop"
  /\ UNCHANGED <<clock, serialNumbers, batchSize, cb_i, batches,
                 prevPost, lastPost, sent>>

(* lines 139-144: loop test, then queue.execute(() => makeRequest(batch)) *)
fetchAllDeviceData_loop ==
  /\ pc = "loop"
  /\ IF i < Len(batches)
       THEN /\ pc' = "await"
            /\ execute(i + 1, clock)
       ELSE /\ pc' = "done"
            /\ UNCHANGED <<calls, lastRequestTime, prevPost, lastPost, sent>>
  /\ UNCHANGED <<clock, serialNumbers, batchSize, cb_i, batches, i, allResults,
                 successCount, failureCount>>

(* variant of awaited: the call is not awaited *)
awaited_missing(b) == TRUE

(* line 144: the awaited call has settled *)
awaited(b) == calls[b].pc \in Settled

(* result.data of a successful response: one reading per requested identifier *)
responseData(snList) == [k \in 1..Len(snList) |-> [sn |-> snList[k]]]

(* variant of mergeResults: the readings replace the dataset *)
mergeResults_replace(data) == data

(* line 145: allResults.push(...result.data) *)
mergeResults(data) == allResults \o data

(* line 146 *)
creditSuccess(batch) == successCount + Len(batch)

(* variant of creditFailure: failed batches are counted, not their identifiers *)
creditFailure_perBatch(batch) == failureCount + 1

(* line 152 *)
creditFailure(batch) == failureCount + Len(batch)

(* variant of fetchAllDeviceData_resume: a failed batch ends the loop *)
fetchAllDeviceData_resume_break ==
  /\ pc = "await"
  /\ awaited(i + 1)
  /\ IF calls[i + 1].pc = "ok"
       THEN /\ allResults' = mergeResults(responseData(batches[i + 1]))
            /\ successCount' = creditSuccess(batches[i + 1])
            /\ i' = i + 1
            /\ pc' = "loop"
            /\ UNCHANGED failureCount
       ELSE /\ failureCount' = creditFailure(batches[i + 1])
            /\ pc' = "done"
            /\ UNCHANGED <<allResults, successCount, i>>
  /\ UNCHANGED <<clock, serialNumbers, batchSize, cb_i, batches, lastRequestTime,
                 calls, prevPost, lastPost, sent>>

(* lines 144-154: the await of line 144 is over: the result is merged or the *)
(* error is caught, and the loop goes on (i++)                               *)
fetchAllDeviceData_resume ==
  /\ pc = "await"
  /\ awaited(i + 1)
  /\ IF calls[i + 1].pc = "ok"
       THEN /\ allResults' = mergeResults(responseData(batches[i + 1]))
            /\ successCount' = creditSuccess(batches[i + 1])
            /\ UNCHANGED failureCount
       ELSE /\ failureCount' = creditFailure(batches[i + 1])
            /\ UNCHANGED <<allResults, successCount>>
  /\ i' = i + 1
  /\ pc' = "loop"
  /\ UNCHANGED <<clock, serialNumbers, batchSize, cb_i, batches, lastRequestTime,
                 calls, prevPost, lastPost, sent>>

----------------------------------------------------------------------------
Init ==
  /\ clock \in StartTimes
  /\ pc = "start"
  /\ serialNumbers = <<>>
  /\ batchSize = BATCH_SIZE
  /\ cb_i = 0
  /\ batches = <<>>
  /\ i = 0
  /\ lastRequestTime = 0
  /\ calls = <<>>
  /\ allResults = <<>>
  /\ successCount = 0
  /\ failureCount = 0
  /\ prevPost = -1
  /\ lastPost = -1
  /\ sent = NoRequest

Next ==
  \/ \E count \in DeviceCounts : fetchAllDeviceData_start(count)
  \/ createBatches_loop
  \/ createBatches_return
  \/ fetchAllDeviceData_init
  \/ fetchAllDeviceData_loop
  \/ \E b \in DOMAIN calls, late \in Lateness : execute_wake(b, late)
  \/ \E b \in DOMAIN calls, d \in NetDurations, resp \in Responses :
       makeRequest_response(b, d, resp)
  \/ \E b \in DOMAIN calls, late \in Lateness : makeRequest_retry(b, late)
  \/ fetchAllDeviceData_resume

Spec == Init /\ [][Next]_vars

(* The run under fairness: every network call and every sleep completes    *)
(* and every resumed flow runs, so a step that stays possible is           *)
(* eventually taken.  Network calls last 0 or Tick and timers fire on      *)
(* time; the responses are unrestricted.                                   *)
NextFair ==
  \/ \E count \in DeviceCounts : fetchAllDeviceData_start(count)
  \/ createBatches_loop
  \/ createBatches_return
  \/ fetchAllDeviceData_init
  \/ fetchAllDeviceData_loop
  \/ \E b \in DOMAIN calls : execute_wake(b, 0)
  \/ \E b \in DOMAIN calls, d \in {0, Tick}, resp \in Responses :
       makeRequest_response(b, d, resp)
  \/ \E b \in DOMAIN calls : makeRequest_retry(b, 0)
  \/ fetchAllDeviceData_resume

SpecFair == Init /\ [][NextFair]_vars /\ WF_vars(NextFair)

----------------------------------------------------------------------------
(* createBatches as a pure function: called on the populations of up to     *)
(* MaxLen identifiers with the batch sizes -MaxBatchSize..MaxBatchSize.     *)
InitBatch ==
  /\ clock = 0
  /\ pc = "createBatches"
  /\ \E n \in 0..MaxLen : serialNumbers = generateSerialNumbers(n)
  /\ batchSize \in (0 - MaxBatchSize)..MaxBatchSize
  /\ cb_i = 0
  /\ batches = <<>>
  /\ i = 0
  /\ lastRequestTime = 0
  /\ calls = <<>>
  /\ allResults = <<>>
  /\ successCount = 0
  /\ failureCount = 0
  /\ prevPost = -1
  /\ lastPost = -1
  /\ sent = NoRequest

NextBatch ==
  \/ createBatches_loop
  \/ createBatches_return

SpecBatch == InitBatch /\ [][NextBatch]_vars

----------------------------------------------------------------------------
(* One RateLimitedQueue shared by NumFlows flows: each flow calls           *)
(* queue.execute(() => makeRequest(batch)) once, at a time of its own, while *)
(* the calls of the other flows may be suspended.  The queue is fresh and   *)
(* the clock is past the first interval, so the first caller is admitted    *)
(* without a wait.                                                          *)
InitConcurrent ==
  /\ clock \in {t \in StartTimes : t >= RATE_LIMIT_MS}
  /\ pc = "concurrent"
  /\ serialNumbers = generateSerialNumbers(NumFlows)
  /\ batchSize = 1
  /\ cb_i = NumFlows
  /\ batches = [b \in 1..NumFlows |-> <<b - 1>>]
  /\ i = 0
  /\ lastRequestTime = 0
  /\ calls = [b \in 1..NumFlows |-> IdleCall]
  /\ allResults = <<>>
  /\ successCount = 0
  /\ failureCount = 0
  /\ prevPost = -1
  /\ lastPost = -1
  /\ sent = NoRequest

(* flow b calls queue.execute after d more time has passed *)
concurrent_execute(b, d) ==
  /\ pc = "concurrent"
  /\ calls[b].pc = "idle"
  /\ clock' = clock + d
  /\ execute(b, clock')
  /\ UNCHANGED <<pc, serialNumbers, batchSize, cb_i, batches, i, allResults,
                 successCount, failureCount>>

NextConcurrent ==
  \/ \E b \in DOMAIN calls, d \in Lateness : concurrent_execute(b, d)
  \/ \E b \in DOMAIN calls, late \in Lateness : execute_wake(b, late)
  \/ \E b \in DOMAIN calls, d \in Lateness, resp \in {"ok", "h401"} :
       makeRequest_response(b, d, resp)

SpecConcurrent == InitConcurrent /\ [][NextConcurrent]_vars

----------------------------------------------------------------------------
(* Properties *)

Abs(x) == IF x < 0 THEN 0 - x ELSE x
CeilDiv(n, b) == (n + b - 1) \div b

RECURSIVE Concat(_)
Concat(seqs) == IF seqs = <<>> THEN <<>> ELSE Head(seqs) \o Concat(Tail(seqs))

(* total number of identifiers in the batches whose index is in S *)
RECURSIVE SumLens(_)
SumLens(S) ==
  IF S = {} THEN 0
  ELSE LET b == CHOOSE x \in S : TRUE IN Len(batches[b]) + SumLens(S \ {b})

RetryableCauses == {"h429", "ECONNREFUSED"}
ServerRejections == {"h401", "h400"}

(* C1: any two consecutive network requests (first attempts and retries of *)
(* every batch alike) start at least RATE_LIMIT_MS apart.                  *)
C1_RequestSpacing ==
  prevPost >= 0 => lastPost - prevPost >= RATE_LIMIT_MS

(* C2: for execute() calls made one after another, the admission times     *)
(* recorded in lastRequestTime for two consecutive calls differ by at      *)
(* least rateLimitMs, however long fn took and however it ended.           *)
C2_AdmissionSpacing ==
  \A b \in DOMAIN calls :
    calls[b].admittedAt >= 0 =>
      /\ lastRequestTime >= calls[b].admittedAt
      /\ b > 1 => calls[b].admittedAt - calls[b - 1].admittedAt >= RATE_LIMIT_MS

(* the second call was admitted exactly one interval after the first, whose *)
(* fn had thrown before the interval was over                              *)
C2_Witness ==
  /\ Len(calls) = 2
  /\ calls[1].pc = "rejected"
  /\ calls[2].admittedAt = calls[1].admittedAt + RATE_LIMIT_MS
  /\ lastRequestTime = calls[2].admittedAt

(* C3: when several flows call execute() on one queue concurrently, no two *)
(* callers are admitted less than rateLimitMs apart.                       *)
C3_ConcurrentAdmissionSpacing ==
  \A a \in DOMAIN calls, b \in DOMAIN calls :
    (a # b /\ calls[a].admittedAt >= 0 /\ calls[b].admittedAt >= 0) =>
      Abs(calls[a].admittedAt - calls[b].admittedAt) >= RATE_LIMIT_MS

(* C4: when the network call of a batch has failed with a retryable cause  *)
(* k < MAX_RETRIES times, the request is still retried, and when it then   *)
(* succeeds makeRequest returns the response after exactly k + 1 calls.    *)
C4_RetryThenSuccess ==
  \A b \in DOMAIN calls :
    LET c == calls[b] IN
    c.fails < MAX_RETRIES =>
      /\ c.lastResp \in RetryableCauses => c.pc \in {"backoff", "net"}
      /\ c.lastResp = "ok" => (c.pc = "ok" /\ c.attempts = c.fails + 1)

(* two retryable failures, then success on the third network call *)
C4_Witness ==
  \E b \in DOMAIN calls :
    /\ calls[b].pc = "ok"
    /\ calls[b].fails = MAX_RETRIES - 1
    /\ calls[b].attempts = MAX_RETRIES

(* C5: when every network attempt of a batch fails with a retryable cause, *)
(* makeRequest fails with retries exhausted after exactly MAX_RETRIES + 1  *)
(* attempts, and its attempt counter never exceeds MAX_RETRIES.            *)
C5_RetriesExhausted ==
  \A b \in DOMAIN calls :
    LET c == calls[b] IN
    /\ c.retryCount <= MAX_RETRIES
    /\ c.attempts <= MAX_RETRIES + 1
    /\ (c.attempts > 0 /\ c.fails = c.attempts) =>
         IF c.attempts = MAX_RETRIES + 1 THEN c.pc = "exhausted" ELSE c.pc = "backoff"
    /\ c.pc = "exhausted" => (c.fails = MAX_RETRIES + 1 /\ c.attempts = MAX_RETRIES + 1)

C5_Witness ==
  \E b \in DOMAIN calls :
    /\ calls[b].pc = "exhausted"
    /\ calls[b].attempts = MAX_RETRIES + 1
    /\ calls[b].retryCount = MAX_RETRIES

(* C6: a server rejection other than HTTP 429 makes makeRequest fail at    *)
(* once: no backoff sleep and no further network attempt for the batch,    *)
(* on the first attempt as well as after earlier retryable failures.       *)
C6_RejectedImmediately ==
  \A b \in DOMAIN calls :
    LET c == calls[b] IN
    c.lastResp \in ServerRejections =>
      /\ c.pc = "rejected"
      /\ c.wakeAt = -1
      /\ c.attempts = c.fails + 1

(* one batch rejected on its first attempt, one after two retryable failures *)
C6_Witness ==
  /\ Len(calls) = 2
  /\ calls[1].lastResp = "h400" /\ calls[1].attempts = 1 /\ calls[1].pc = "rejected"
  /\ calls[2].lastResp = "h401" /\ calls[2].attempts = 3 /\ calls[2].pc = "rejected"

(* C7: a failed batch never ends the run: every batch is passed to         *)
(* queue.execute exactly once, the batches after a failed one are still    *)
(* processed, and the run returns only after all batches have settled.     *)
C7_FailureContained ==
  pc \in {"loop", "await", "done"} =>
    /\ DOMAIN calls = DOMAIN batches
    /\ \A b \in DOMAIN calls : calls[b].started <= 1
    /\ \A b \in 1..i :
         /\ calls[b].started = 1
         /\ calls[b].admittedAt >= 0
         /\ calls[b].attempts >= 1
         /\ calls[b].pc \in Settled
    /\ pc = "done" => i = Len(batches)

(* the run has returned; the first batch failed for good, the second succeeded *)
C7_Witness ==
  /\ pc = "done"
  /\ Len(batches) = 2
  /\ calls[1].pc = "exhausted"
  /\ calls[2].pc = "ok"

(* C8: after each batch, successCount is the number of identifiers of the  *)
(* processed batches whose request finally succeeded, failureCount that of *)
(* the others, their sum the identifiers processed so far, and at the end  *)
(* of the run the population size.                                         *)
C8_Accounting ==
  pc \in {"loop", "await", "done"} =>
    /\ successCount = SumLens({b \in 1..i : calls[b].lastResp = "ok"})
    /\ failureCount = SumLens({b \in 1..i : calls[b].lastResp # "ok"})
    /\ successCount + failureCount = SumLens(1..i)
    /\ pc = "done" => successCount + failureCount = Len(serialNumbers)

(* 15 identifiers: the batch of 10 succeeded, the batch of 5 failed *)
C8_Witness ==
  /\ pc = "done"
  /\ Len(serialNumbers) = MaxDevices
  /\ successCount = BATCH_SIZE
  /\ failureCount = MaxDevices - BATCH_SIZE

(* C9: queue.execute for a batch begins only when every earlier batch has  *)
(* settled, at most one network request is in flight, and the batches are  *)
(* admitted in index order.                                                *)
C9_Sequential ==
  /\ InFlight <= 1
  /\ \A b \in DOMAIN calls :
       calls[b].pc # "idle" =>
         \A a \in 1..(b - 1) :
           /\ calls[a].pc \in Settled
           /\ calls[a].admittedAt >= 0
           /\ calls[b].admittedAt >= 0 => calls[a].admittedAt <= calls[b].admittedAt

(* the second batch is in flight after the first one settled through retries *)
C9_Witness ==
  /\ Len(calls) = 2
  /\ calls[1].pc \in Settled
  /\ calls[1].attempts > 1
  /\ calls[2].pc = "net"
  /\ InFlight = 1

(* C10: for n identifiers and a batch size b > 0 createBatches returns     *)
(* ceil(n/b) batches whose concatenation is the input; all but the last    *)
(* have b elements, the last has 1..b, every identifier is in one batch.   *)
C10_Batches ==
  (pc = "batched" /\ batchSize > 0) =>
    /\ Len(batches) = CeilDiv(Len(serialNumbers), batchSize)
    /\ Concat(batches) = serialNumbers
    /\ \A k \in 1..(Len(batches) - 1) : Len(batches[k]) = batchSize
    /\ Len(batches) > 0 => Len(batches[Len(batches)]) \in 1..batchSize
    /\ \A n \in DOMAIN serialNumbers :
         Cardinality({kj \in {<<k, j>> : k \in DOMAIN batches, j \in 1..batchSize} :
                        /\ kj[2] \in DOMAIN batches[kj[1]]
                        /\ batches[kj[1]][kj[2]] = serialNumbers[n]}) = 1

(* 7 identifiers in batches of 3: two full batches and a last batch of one *)
C10_Witness ==
  /\ pc = "batched"
  /\ Len(serialNumbers) = 7
  /\ batchSize = 3
  /\ Len(batches) = 3
  /\ Len(batches[3]) = 1

(* C11: with a batch size <= 0 createBatches fails at once: it does not    *)
(* return batches and it does no partial work (no batch is ever built).    *)
C11_InvalidSizeFails ==
  batchSize <= 0 => (pc # "batched" /\ batches = <<>>)

ConnectionFailures == {"ECONNREFUSED", "ETIMEDOUT"}

(* C13: every failure without an HTTP response (not only a refused         *)
(* connection) is retried like HTTP 429: after it the call is in backoff   *)
(* or retried, unless its attempt counter had reached MAX_RETRIES.         *)
C13_ConnectionFailureRetried ==
  \A b \in DOMAIN calls :
    LET c == calls[b] IN
    c.lastResp \in ConnectionFailures =>
      \/ c.pc \in {"backoff", "net"}
      \/ c.pc = "exhausted" /\ c.retryCount = MAX_RETRIES

C15_ExponentialBackoff ==
  \A b \in DOMAIN calls :
    \A k \in DOMAIN calls[b].delays :
      k > 1 => calls[b].delays[k] > calls[b].delays[k - 1]

(* number of axios.post calls made for the batches whose index is in S *)
RECURSIVE SumAttempts(_)
SumAttempts(S) ==
  IF S = {} THEN 0
  ELSE LET b == CHOOSE x \in S : TRUE IN calls[b].attempts + SumAttempts(S \ {b})

(* C16: a run whose network calls and sleeps all complete eventually       *)
(* finishes with every batch resolved, and it never makes more than        *)
(* (number of batches) x (MAX_RETRIES + 1) network attempts.               *)
C16_Terminates ==
  /\ [](SumAttempts(DOMAIN calls) <= Len(batches) * (MAX_RETRIES + 1))
  /\ <>(/\ pc = "done"
        /\ DOMAIN calls = DOMAIN batches
        /\ \A b \in DOMAIN calls : calls[b].pc \in Settled)

(* the run is over and both batches used up all their attempts *)
C16_Witness ==
  /\ pc = "done"
  /\ Len(batches) = 2
  /\ SumAttempts(DOMAIN calls) = 2 * (MAX_RETRIES + 1)

(* C17: the timer of the queue runs from the admission: lastRequestTime is *)
(* written when the call is admitted, in the turn that invokes fn, and     *)
(* when the next execute() is called d after the previous admission it     *)
(* admits at once if d >= rateLimitMs and else sleeps rateLimitMs - d.     *)
C17_TimerFromAdmission ==
  [][/\ \A b \in DOMAIN calls :
          (b \in DOMAIN calls' /\ calls[b].admittedAt = -1 /\ calls'[b].admittedAt # -1) =>
            /\ calls'[b].admittedAt = clock'
            /\ lastRequestTime' = clock'
            /\ calls'[b].pc = "net"
            /\ lastPost' = clock'
     /\ (pc = "loop" /\ pc' = "await" /\ i >= 1) =>
          LET d == clock - calls[i].admittedAt
          IN  IF d >= RATE_LIMIT_MS
                THEN /\ calls'[i + 1].pc = "net"
                     /\ calls'[i + 1].admittedAt = clock
                ELSE /\ calls'[i + 1].pc = "exec_sleep"
                     /\ calls'[i + 1].wakeAt - clock = RATE_LIMIT_MS - d
                     /\ lastRequestTime' = lastRequestTime]_vars

(* the work of the first call took half an interval: the second call       *)
(* sleeps for the other half                                               *)
C17_Witness ==
  /\ pc = "await"
  /\ Len(calls) = 2
  /\ calls[1].pc \in Settled
  /\ clock - calls[1].admittedAt = Tick
  /\ calls[2].pc = "exec_sleep"
  /\ calls[2].wakeAt - clock = RATE_LIMIT_MS - Tick

C19_WrittenOnlyAtAdmission ==
  [][/\ lastRequestTime' >= lastRequestTime
     /\ lastRequestTime' # lastRequestTime =>
          \E b \in DOMAIN calls' :
            /\ b \in DOMAIN calls => calls[b].admittedAt = -1
            /\ calls'[b].admittedAt = lastRequestTime'
            /\ calls'[b].pc = "net"
            /\ calls'[b].retryCount = 0
            /\ lastRequestTime' = clock'
     /\ \A b \in DOMAIN calls :
          (calls[b].pc \in {"net", "backoff"} /\ calls'[b] # calls[b]) =>
            lastRequestTime' = lastRequestTime]_vars

(* a retry has been posted after the admission and the state of the queue  *)
(* still holds the time of the admission                                   *)
C19_Witness ==
  \E b \in DOMAIN calls :
    /\ calls[b].pc = "net"
    /\ calls[b].retryCount = MAX_RETRIES
    /\ lastPost > lastRequestTime
    /\ lastRequestTime = calls[b].admittedAt
    /\ lastRequestTime > 0

(* C20: with one reading per requested identifier in every successful      *)
(* response, the dataset holds exactly successCount readings: those of the *)
(* successful batches handled so far, in batch order, and nothing of a     *)
(* failed batch.                                                           *)
C20_DatasetMatchesSuccesses ==
  pc \in {"loop", "await", "done"} =>
    /\ Len(allResults) = successCount
    /\ allResults = Concat([b \in 1..i |-> IF calls[b].pc = "ok"
                                             THEN responseData(batches[b])
                                             ELSE <<>>])
    /\ \A k \in DOMAIN allResults :
         \E b \in 1..i : /\ calls[b].pc = "ok"
                         /\ \E j \in DOMAIN batches[b] : batches[b][j] = allResults[k].sn

(* a failed batch between nothing and a successful one: only the second is merged *)
C20_Witness ==
  /\ pc = "done"
  /\ Len(batches) = 2
  /\ calls[1].pc = "exhausted"
  /\ calls[2].pc = "ok"
  /\ failureCount = Len(batches[1])
  /\ allResults = responseData(batches[2])

====
